---- MODULE Spec2Model ----
(***************************************************************************)
(* A model of json_ser (src/src/lib.rs): the JsonCommandAggregator that    *)
(* turns the fragments written by the pretty Debug renderer into JSON      *)
(* text, the entry point serialize_with_renamed_fields, and the renaming   *)
(* policies keep_as_is and pascal_case.                                    *)
(*                                                                         *)
(* Text is a sequence of characters, each character a one-character        *)
(* string, so that trimming, the last character of the buffer and the      *)
(* first character of a field name are computed as the code computes them. *)
(***************************************************************************)
EXTENDS Integers, Sequences, FiniteSets

VARIABLES
    current,       \* JsonCommandAggregator.current: the output buffer
    expecting,     \* JsonCommandAggregator.expecting: u16 bit set
    rename_field,  \* JsonCommandAggregator.rename_field: "keep_as_is" | "pascal_case"
    ret,           \* what the last write_str call returned ("none" before any)
    obj,           \* the value handed to serialize (NoValue outside a serialize run)
    pending,       \* fragments the Debug renderer has still to write
    name,          \* the argument of pascal_case (<<>> outside a renaming run)
    renamed        \* [done, s]: whether pascal_case has returned, and its result

vars == <<current, expecting, rename_field, ret, obj, pending, name, renamed>>

----------------------------------------------------------------------------
(* Characters *)

Lower == <<"a","b","c","d","e","f","g","h","i","j","k","l","m",
           "n","o","p","q","r","s","t","u","v","w","x","y","z">>

Upper == <<"A","B","C","D","E","F","G","H","I","J","K","L","M",
           "N","O","P","Q","R","S","T","U","V","W","X","Y","Z">>

Digits == {"0","1","2","3","4","5","6","7","8","9"}

Whitespace == {" ", "\n", "\t", "\r"}

is_ascii_digit(c) == c \in Digits

is_ascii_uppercase(c) == \E i \in 1..26 : Upper[i] = c

to_ascii_uppercase(c) ==
    IF \E i \in 1..26 : Lower[i] = c
    THEN Upper[CHOOSE i \in 1..26 : Lower[i] = c]
    ELSE c

to_ascii_lowercase(c) ==
    IF \E i \in 1..26 : Upper[i] = c
    THEN Lower[CHOOSE i \in 1..26 : Upper[i] = c]
    ELSE c

\* as trim, had write_str matched on the fragment as it came
trim_none(s) == s

\* str::trim: the text without its leading and trailing whitespace
trim(s) ==
    LET idx == {i \in 1..Len(s) : s[i] \notin Whitespace}
    IN  IF idx = {} THEN <<>>
        ELSE LET lo == CHOOSE i \in idx : \A j \in idx : i <= j
                 hi == CHOOSE i \in idx : \A j \in idx : j <= i
             IN  SubSeq(s, lo, hi)

\* str::parse::<f64>().is_ok(): [sign] (inf | infinity | nan, in any case)
\* or [sign] digits [. digits] [(e|E) [sign] digits] with a digit in the mantissa
parses_as_f64(s) ==
    LET n    == Len(s)
        st   == IF n >= 1 /\ s[1] \in {"+", "-"} THEN 2 ELSE 1
        word == [i \in 1..(n - st + 1) |-> to_ascii_lowercase(s[st + i - 1])]
        \* the first position at or after i that holds no digit
        run(i) == CHOOSE j \in i..(n + 1) :
                     /\ \A k \in i..(j - 1) : is_ascii_digit(s[k])
                     /\ (j = n + 1 \/ ~is_ascii_digit(s[j]))
        intEnd  == run(st)
        hasDot  == intEnd <= n /\ s[intEnd] = "."
        fracEnd == IF hasDot THEN run(intEnd + 1) ELSE intEnd
        nDigits == (intEnd - st) + (IF hasDot THEN fracEnd - intEnd - 1 ELSE 0)
        hasExp  == fracEnd <= n /\ s[fracEnd] \in {"e", "E"}
        expSt   == IF fracEnd + 1 <= n /\ s[fracEnd + 1] \in {"+", "-"}
                   THEN fracEnd + 2 ELSE fracEnd + 1
    IN  \/ word \in { <<"i","n","f">>, <<"n","a","n">>,
                      <<"i","n","f","i","n","i","t","y">> }
        \/ /\ nDigits >= 1
           /\ IF hasExp
              THEN expSt <= n /\ run(expSt) = n + 1
              ELSE fracEnd = n + 1

----------------------------------------------------------------------------
(* The token kinds: bits of the u16 `expecting` *)

OPEN_BRACE    == 32768
CLOSE_BRACE   == 16384
OPEN_BRACKET  == 8192
CLOSE_BRACKET == 4096
COLON         == 2048
START_QUOTE   == 1024
END_QUOTE     == 512
\* the bit the code names STRING (a reserved word here)
STRING_BODY   == 256
ESCAPE_CHAR   == 128
FIELD_NAME    == 64
NUMBER        == 32

\* val & flag != 0, for a flag that is a single bit
flag_has(val, flag) == (val \div flag) % 2 = 1

\* a | b | ... for a set of distinct single-bit flags
RECURSIVE bit_or(_)
bit_or(flags) ==
    IF flags = {} THEN 0
    ELSE LET f == CHOOSE x \in flags : TRUE
         IN  f + bit_or(flags \ {f})

\* the expected sets the arms of write_str assign
AfterOpenBrace    == bit_or({FIELD_NAME, CLOSE_BRACE})
\* as AfterCloseBrace, had the arm forgotten OPEN_BRACE
AfterCloseBrace_NoOpenBrace ==
    bit_or({FIELD_NAME, CLOSE_BRACE, CLOSE_BRACKET, START_QUOTE, OPEN_BRACKET})
AfterCloseBrace   == bit_or({FIELD_NAME, CLOSE_BRACE, CLOSE_BRACKET, START_QUOTE,
                             OPEN_BRACE, OPEN_BRACKET})
\* as AfterOpenBracket, had the arm forgotten CLOSE_BRACKET
AfterOpenBracket_NoClose == bit_or({START_QUOTE, OPEN_BRACE, OPEN_BRACKET, NUMBER})
AfterOpenBracket  == bit_or({START_QUOTE, OPEN_BRACE, OPEN_BRACKET, CLOSE_BRACKET,
                             NUMBER})
AfterCloseBracket == bit_or({FIELD_NAME, CLOSE_BRACE, CLOSE_BRACKET, START_QUOTE,
                             OPEN_BRACE, OPEN_BRACKET})
AfterColon        == bit_or({START_QUOTE, OPEN_BRACE, OPEN_BRACKET, NUMBER})
\* as AfterStartQuote, had the opening-quote arm kept OPEN_BRACE expected
AfterStartQuote_WithOpenBrace ==
    bit_or({END_QUOTE, STRING_BODY, ESCAPE_CHAR, OPEN_BRACE})
AfterStartQuote   == bit_or({END_QUOTE, STRING_BODY, ESCAPE_CHAR})
AfterEndQuote     == bit_or({START_QUOTE, FIELD_NAME, CLOSE_BRACE, CLOSE_BRACKET,
                             OPEN_BRACE, OPEN_BRACKET})
AfterScalar       == bit_or({FIELD_NAME, CLOSE_BRACE, CLOSE_BRACKET, NUMBER,
                             START_QUOTE})
\* as AfterEscape, had the escape arm kept the expected set of the string body
AfterEscape_Closable == bit_or({END_QUOTE, STRING_BODY, ESCAPE_CHAR})
AfterEscape       == STRING_BODY
\* as AfterStringBody, had the string arm expected START_QUOTE as well
AfterStringBody_WithStartQuote ==
    bit_or({START_QUOTE, END_QUOTE, STRING_BODY, ESCAPE_CHAR})
\* as AfterStringBody, had the string arm forgotten END_QUOTE
AfterStringBody_NoEndQuote == bit_or({STRING_BODY, ESCAPE_CHAR})
AfterStringBody   == bit_or({END_QUOTE, STRING_BODY, ESCAPE_CHAR})
\* as AfterFieldName, had the field-name arm expected nothing
AfterFieldName_Nothing == bit_or({})
AfterFieldName    == COLON

----------------------------------------------------------------------------
(* The renaming policies *)

keep_as_is(s) == s

\* the loop of pascal_case from position i on, with the output so far
RECURSIVE pascal_loop(_, _, _, _, _)
pascal_loop(s, i, out, first, last_was_underscore) ==
    IF i > Len(s) THEN out
    ELSE LET c == s[i] IN
         IF first
         THEN pascal_loop(s, i + 1, Append(out, to_ascii_uppercase(c)), FALSE,
                          last_was_underscore)
         ELSE IF c = "_"
         THEN pascal_loop(s, i + 1, out, first, TRUE)
         ELSE IF last_was_underscore
         THEN pascal_loop(s, i + 1, Append(out, to_ascii_uppercase(c)), first, FALSE)
         ELSE pascal_loop(s, i + 1, Append(out, c), first, last_was_underscore)

pascal_case(s) == pascal_loop(s, 1, <<>>, TRUE, FALSE)

\* (self.rename_field)(field_name)
call_rename(fn, s) == IF fn = "pascal_case" THEN pascal_case(s) ELSE keep_as_is(s)

----------------------------------------------------------------------------
(* The aggregator *)

\* as add_comma, had it not looked for the e that ends true and false
add_comma_without_e(s) ==
    IF Len(s) > 0
    THEN LET c == s[Len(s)] IN
         IF c = "\"" \/ c = "]" \/ c = "}" \/ is_ascii_digit(c)
         THEN Append(s, ",")
         ELSE s
    ELSE s

\* as add_comma, had it put the comma in the place of the last character
add_comma_replacing(s) ==
    IF Len(s) > 0
    THEN LET c == s[Len(s)] IN
         IF c = "\"" \/ c = "]" \/ c = "}" \/ is_ascii_digit(c) \/ c = "e"
         THEN Append(SubSeq(s, 1, Len(s) - 1), ",")
         ELSE s
    ELSE s

\* as add_comma, had it separated siblings with a comma and a space
add_comma_spaced(s) ==
    IF Len(s) > 0
    THEN LET c == s[Len(s)] IN
         IF c = "\"" \/ c = "]" \/ c = "}" \/ is_ascii_digit(c) \/ c = "e"
         THEN s \o <<",", " ">>
         ELSE s
    ELSE s

add_comma(s) ==
    IF Len(s) > 0
    THEN LET c == s[Len(s)] IN
         IF c = "\"" \/ c = "]" \/ c = "}" \/ is_ascii_digit(c) \/ c = "e"
         THEN Append(s, ",")
         ELSE s
    ELSE s

\* as fieldname_does_not_start_with_capital, had it let every name through
fieldname_any(n) == TRUE

fieldname_does_not_start_with_capital(n) ==
    IF Len(n) > 0 THEN ~is_ascii_uppercase(n[1]) ELSE TRUE

\* The arm of the match in write_str that the trimmed fragment s takes when
\* x is expected: the first arm whose pattern and guard hold.
match_arm(s, x) ==
    IF      s = <<"{">> /\ flag_has(x, OPEN_BRACE)                   THEN "open_brace"
    ELSE IF s = <<"}">> /\ flag_has(x, CLOSE_BRACE)                  THEN "close_brace"
    ELSE IF s \in {<<"[">>, <<"(">>} /\ flag_has(x, OPEN_BRACKET)    THEN "open_bracket"
    ELSE IF s \in {<<"]">>, <<")">>} /\ flag_has(x, CLOSE_BRACKET)   THEN "close_bracket"
    ELSE IF s = <<":">> /\ flag_has(x, COLON)                        THEN "colon"
    ELSE IF s = <<"\"">> /\ flag_has(x, START_QUOTE)                 THEN "start_quote"
    ELSE IF s = <<"\"">> /\ flag_has(x, END_QUOTE)                   THEN "end_quote"
    ELSE IF s = <<"t","r","u","e">> /\ flag_has(x, NUMBER)           THEN "true"
    ELSE IF s = <<"f","a","l","s","e">> /\ flag_has(x, NUMBER)       THEN "false"
    ELSE IF flag_has(x, NUMBER) /\ parses_as_f64(s)                  THEN "number"
    ELSE IF flag_has(x, STRING_BODY)                                      THEN "string"
    ELSE IF flag_has(x, FIELD_NAME)
            /\ fieldname_does_not_start_with_capital(s)              THEN "field_name"
    ELSE "no_match"

\* as write_result, had the catch-all arm reported the fragment it drops
write_result_err_on_no_match(arm) == IF arm = "no_match" THEN "Err" ELSE "Ok"

\* what write_str returns after taking the given arm: Ok(()) on every path
write_result(arm) == "Ok"

\* write_str(&mut self, s): the aggregator after the call, and what it returns
write_str(self, raw) ==
    LET s   == trim(raw)
        arm == match_arm(s, self.expecting)
        upd(cur, exp) == [current |-> cur, expecting |-> exp,
                          rename_field |-> self.rename_field, ret |-> write_result(arm)]
        same == upd(self.current, self.expecting)
    IN  CASE arm = "open_brace" ->
               upd(Append(add_comma(self.current), "{"), AfterOpenBrace)
          [] arm = "close_brace" ->
               upd(Append(self.current, "}"), AfterCloseBrace)
          [] arm = "open_bracket" ->
               upd(Append(add_comma(self.current), "["), AfterOpenBracket)
          [] arm = "close_bracket" ->
               upd(Append(self.current, "]"), AfterCloseBracket)
          [] arm = "colon" ->
               upd(self.current, AfterColon)
          [] arm = "start_quote" ->
               upd(Append(add_comma(self.current), "\""), AfterStartQuote)
          [] arm = "end_quote" ->
               upd(Append(self.current, "\""), AfterEndQuote)
          [] arm = "true" ->
               upd(self.current \o <<"t","r","u","e">>, AfterScalar)
          [] arm = "false" ->
               upd(self.current \o <<"f","a","l","s","e">>, AfterScalar)
          [] arm = "number" ->
               upd(self.current \o s, AfterScalar)
          [] arm = "string" ->
               IF s = <<"\\">>
               THEN upd(self.current \o <<"\\", "\\">>, AfterEscape)
               ELSE upd(self.current \o s, AfterStringBody)
          [] arm = "field_name" ->
               IF s = <<>> THEN same
               ELSE IF s = <<",">> THEN same
               ELSE upd(add_comma(self.current) \o <<"\"">>
                            \o call_rename(self.rename_field, s)
                            \o <<"\"", ":">>,
                        AfterFieldName)
          [] OTHER -> same

\* no value: the aggregator is fed directly
NoValue == [k |-> "none"]

\* as new_aggregator, had it started where a value is expected
new_aggregator_expecting_value(rename_fn) ==
    [current |-> <<>>, expecting |-> OPEN_BRACE + OPEN_BRACKET + START_QUOTE + NUMBER,
     rename_field |-> rename_fn]

\* the aggregator serialize_with_renamed_fields constructs
new_aggregator(rename_fn) ==
    [current |-> <<>>, expecting |-> OPEN_BRACE, rename_field |-> rename_fn]

self == [current |-> current, expecting |-> expecting, rename_field |-> rename_field]

----------------------------------------------------------------------------
(* Feeding the aggregator directly: any fragment, in any state *)

\* the longest output buffer the model follows
MaxLen == 8

\* the longest text the model follows inside an open string since its opening
\* quote or the last quote in it (the aggregator never reads that text)
MaxBody == 2

\* the number of characters at the end of the buffer that follow its last quote
RECURSIVE open_text(_)
open_text(s) ==
    IF s = <<>> THEN 0
    ELSE IF s[Len(s)] = "\"" THEN 0
    ELSE 1 + open_text(SubSeq(s, 1, Len(s) - 1))

\* The fragments fed: the pieces the pretty Debug renderer writes (with the
\* whitespace it writes around them) and pieces it never writes.
Fragments ==
    { <<" ", "{", "\n">>, <<"{">>, <<"}">>, <<"[">>, <<"(", "\n">>, <<"]">>, <<")">>,
      <<":", " ">>, <<"\"">>, <<"\\">>, <<",", "\n">>, <<" ", " ", " ", " ">>,
      <<"t","r","u","e">>, <<"f","a","l","s","e">>, <<"1">>, <<"2", "e">>,
      <<"a">>, <<"T">>, <<"-">> }

InitFeed ==
    /\ current = new_aggregator("keep_as_is").current
    /\ expecting = new_aggregator("keep_as_is").expecting
    /\ rename_field = "keep_as_is"
    /\ ret = "none"
    /\ obj = NoValue
    /\ pending = <<>>
    /\ name = <<>>
    /\ renamed = [done |-> FALSE, s |-> <<>>]

\* one call agg.write_str(f)
Feed(f) ==
    LET after == write_str(self, f) IN
    /\ Len(after.current) <= MaxLen
    /\ flag_has(after.expecting, STRING_BODY) =>
          open_text(after.current) <= MaxBody
    /\ current' = after.current
    /\ expecting' = after.expecting
    /\ rename_field' = after.rename_field
    /\ ret' = after.ret
    /\ UNCHANGED <<obj, pending, name, renamed>>

NextFeed == \E f \in Fragments : Feed(f)

Spec == InitFeed /\ [][NextFeed]_vars

----------------------------------------------------------------------------
(* Values, and the fragments the pretty Debug renderer writes for them *)

Str(s)                == [k |-> "str", s |-> s]
Bool(b)               == [k |-> "bool", b |-> b]
Num(n)                == [k |-> "num", n |-> n]
Field(n, v)           == [n |-> n, v |-> v]
Struct(ty, fields)    == [k |-> "struct", ty |-> ty, fields |-> fields]
List(es)              == [k |-> "list", es |-> es]
Tuple(es)             == [k |-> "tuple", es |-> es]
UnitVariant(tag)      == [k |-> "unit_variant", tag |-> tag]
TupleVariant(tag, es) == [k |-> "tuple_variant", tag |-> tag, es |-> es]

\* the decimal digits of an unsigned integer
RECURSIVE digits_of(_)
digits_of(n) ==
    LET d == <<"0","1","2","3","4","5","6","7","8","9">>[(n % 10) + 1]
    IN  IF n < 10 THEN <<d>> ELSE Append(digits_of(n \div 10), d)

\* the indentation written at the start of a line inside d nested containers
RECURSIVE indent(_)
indent(d) == IF d = 0 THEN <<>> ELSE <<<<" ", " ", " ", " ">>>> \o indent(d - 1)

\* <str as Debug>: the text between the quotes, from position i on, with the
\* unescaped run that started at position from; a quote or a backslash is
\* written as a backslash and then the character, each in a write of its own
RECURSIVE str_chunks(_, _, _)
str_chunks(s, from, i) ==
    LET chunk == IF from < i THEN <<SubSeq(s, from, i - 1)>> ELSE <<>>
    IN  IF i > Len(s) THEN chunk
        ELSE IF s[i] \in {"\"", "\\"}
        THEN chunk \o << <<"\\">>, <<s[i]>> >> \o str_chunks(s, i + 1, i + 1)
        ELSE str_chunks(s, from, i + 1)

\* format_args!("{:#?}", v), as the writes the aggregator receives, for a value
\* at nesting depth d
RECURSIVE debug_fmt(_, _)
RECURSIVE debug_fields(_, _, _)
RECURSIVE debug_entries(_, _, _)

debug_fields(fields, i, d) ==
    IF i > Len(fields) THEN <<>>
    ELSE indent(d) \o << fields[i].n, <<":", " ">> >> \o debug_fmt(fields[i].v, d)
             \o << <<",", "\n">> >> \o debug_fields(fields, i + 1, d)

debug_entries(es, i, d) ==
    IF i > Len(es) THEN <<>>
    ELSE indent(d) \o debug_fmt(es[i], d) \o << <<",", "\n">> >>
             \o debug_entries(es, i + 1, d)

debug_fmt(v, d) ==
    CASE v.k = "str"  -> << <<"\"">> >> \o str_chunks(v.s, 1, 1) \o << <<"\"">> >>
      [] v.k = "bool" -> IF v.b THEN << <<"t","r","u","e">> >>
                                ELSE << <<"f","a","l","s","e">> >>
      [] v.k = "num"  -> << digits_of(v.n) >>
      [] v.k = "struct" ->
            << v.ty, <<" ", "{", "\n">> >> \o debug_fields(v.fields, 1, d + 1)
                \o indent(d) \o << <<"}">> >>
      [] v.k = "list" ->
            IF v.es = <<>> THEN << <<"[">>, <<"]">> >>
            ELSE << <<"[">>, <<"\n">> >> \o debug_entries(v.es, 1, d + 1)
                     \o indent(d) \o << <<"]">> >>
      [] v.k = "tuple" ->
            << <<"(", "\n">> >> \o debug_entries(v.es, 1, d + 1)
                \o indent(d) \o << <<")">> >>
      [] v.k = "unit_variant" -> << v.tag >>
      [] v.k = "tuple_variant" ->
            << v.tag, <<"(", "\n">> >> \o debug_entries(v.es, 1, d + 1)
                \o indent(d) \o << <<")">> >>

----------------------------------------------------------------------------
(* serialize(obj): a fresh aggregator receives the renderer's writes in order *)

\* std::fmt::write(&mut agg, ...): the writes fs handed to agg one by one, up
\* to the first that returns an error
RECURSIVE fmt_write(_, _)
fmt_write(agg, fs) ==
    IF fs = <<>> THEN agg
    ELSE LET after == write_str(agg, Head(fs)) IN
         IF after.ret = "Err" THEN after ELSE fmt_write(after, Tail(fs))

serialize_with_renamed_fields(v, rename_fn) ==
    fmt_write(new_aggregator(rename_fn), debug_fmt(v, 0)).current

serialize(v) == serialize_with_renamed_fields(v, "keep_as_is")

serialize_with_pascal_case(v) == serialize_with_renamed_fields(v, "pascal_case")

\* bounds of the values serialized
MaxFields == 3   \* fields of a record of scalars
MaxElems  == 2   \* elements of a list or tuple of mixed elements
MaxRecs   == 2   \* records in a list of records
MaxSibs   == 3   \* siblings that follow a list of records in a tuple

SeqsUpTo(S, n) == UNION {[1..k -> S] : k \in 0..n}
SeqsFrom(S, lo, hi) == UNION {[1..k -> S] : k \in lo..hi}

TypeName   == <<"T">>
FieldNames == << <<"a">>, <<"b">>, <<"c">>, <<"d">> >>

\* the record with the given field values, named a, b, c, d in that order
StructOf(vals) == Struct(TypeName, [i \in 1..Len(vals) |-> Field(FieldNames[i], vals[i])])

PlainStrs == { <<>>, <<"h", "i">> }
Strings   == {Str(s) : s \in PlainStrs}
Bools     == {Bool(TRUE), Bool(FALSE)}
Numbers   == {Num(1), Num(20)}
Scalars   == Strings \cup Bools \cup Numbers

\* records of scalars
FlatStructs == {StructOf(vals) : vals \in SeqsFrom(Scalars, 1, MaxFields)}

\* a record with one field that is a list or a tuple of mixed elements
Elems == Scalars \cup {List(<<>>), StructOf(<<Str(<<"h", "i">>)>>)}
SeqStructs ==
    {StructOf(<<List(es)>>) : es \in SeqsUpTo(Elems, MaxElems)}
        \cup {StructOf(<<Tuple(es)>>) : es \in SeqsFrom(Elems, 1, MaxElems)}

\* a record with one field that is a list (or tuple) of records, or a tuple that
\* starts with a list of records and goes on with siblings
RecElems == { StructOf(<<Str(<<>>)>>), StructOf(<<Bool(TRUE)>>),
              StructOf(<<Bool(FALSE), Str(<<"h", "i">>)>>) }
Siblings == { Str(<<"h", "i">>), StructOf(<<Str(<<>>)>>), List(<<Str(<<"h", "i">>)>>) }
NestStructs ==
    {StructOf(<<List(rs)>>) : rs \in SeqsUpTo(RecElems, MaxRecs)}
        \cup {StructOf(<<Tuple(rs)>>) : rs \in SeqsFrom(RecElems, 1, MaxRecs)}
        \cup {StructOf(<<Tuple(<<List(rs)>> \o sibs)>>) :
                 rs \in SeqsUpTo(RecElems, MaxRecs), sibs \in SeqsUpTo(Siblings, MaxSibs)}

\* records with a string that needs escaping, and nested records
OtherStructs ==
    { StructOf(<<Str(<<"\"">>)>>), StructOf(<<Str(<<"a", "\\", "b">>)>>),
      StructOf(<<StructOf(<<Str(<<"h", "i">>)>>), Num(1)>>) }

\* values with a variant somewhere, as a field, a list element or the root
Variants == { UnitVariant(<<"N", "o", "n", "e">>),
              TupleVariant(<<"S", "o", "m", "e">>, <<Str(<<"h", "i">>)>>),
              TupleVariant(<<"V">>, <<Num(1), Bool(TRUE)>>) }
VariantStructs ==
    {StructOf(<<v>>) : v \in Variants}
        \cup {StructOf(<<v, s>>) : v \in Variants, s \in Scalars}
        \cup {StructOf(<<s, v>>) : v \in Variants, s \in Scalars}
        \cup {StructOf(<<List(<<v>>)>>) : v \in Variants}

\* roots that are not records
OtherRoots == Variants \cup { Str(<<"h", "i">>), Num(1), List(<<Str(<<"h", "i">>)>>),
                              Tuple(<<StructOf(<<Bool(TRUE)>>), Num(1)>>) }

Values == FlatStructs \cup SeqStructs \cup NestStructs \cup OtherStructs
              \cup VariantStructs \cup OtherRoots

InitSer ==
    /\ obj \in Values
    /\ current = new_aggregator("keep_as_is").current
    /\ expecting = new_aggregator("keep_as_is").expecting
    /\ rename_field = "keep_as_is"
    /\ ret = "none"
    /\ pending = debug_fmt(obj, 0)
    /\ name = <<>>
    /\ renamed = [done |-> FALSE, s |-> <<>>]

\* std::fmt::write hands the renderer's next write to agg.write_str, and gives
\* up at the first write that returns an error
Write ==
    /\ pending # <<>>
    /\ ret # "Err"
    /\ LET after == write_str(self, Head(pending)) IN
        /\ current' = after.current
        /\ expecting' = after.expecting
        /\ rename_field' = after.rename_field
        /\ ret' = after.ret
    /\ pending' = Tail(pending)
    /\ UNCHANGED <<obj, name, renamed>>

NextSer == Write

SpecSer == InitSer /\ [][NextSer]_vars

\* serialize has returned agg.current
Returned == obj.k # "none" /\ (pending = <<>> \/ ret = "Err")

----------------------------------------------------------------------------
(* pascal_case applied to a field name *)

\* the longest field name renamed
MaxName == 4

NameChars == {"a", "b", "_"}
Names == SeqsUpTo(NameChars, MaxName)

InitPascal ==
    /\ name \in Names
    /\ renamed = [done |-> FALSE, s |-> <<>>]
    /\ current = <<>>
    /\ expecting = OPEN_BRACE
    /\ rename_field = "pascal_case"
    /\ ret = "none"
    /\ obj = NoValue
    /\ pending = <<>>

Rename ==
    /\ ~renamed.done
    /\ renamed' = [done |-> TRUE, s |-> call_rename(rename_field, name)]
    /\ UNCHANGED <<current, expecting, rename_field, ret, obj, pending, name>>

NextPascal == Rename

SpecPascal == InitPascal /\ [][NextPascal]_vars

----------------------------------------------------------------------------
(* The JSON text of a value, written from JSON's grammar and not from the     *)
(* aggregator: what the output is compared with                               *)

\* the characters of a string between the quotes, a quote and a backslash escaped
RECURSIVE json_escape(_)
json_escape(s) ==
    IF s = <<>> THEN <<>>
    ELSE (IF Head(s) \in {"\"", "\\"} THEN <<"\\", Head(s)>> ELSE <<Head(s)>>)
             \o json_escape(Tail(s))

\* the texts of ts joined by commas
RECURSIVE join(_)
join(ts) ==
    IF ts = <<>> THEN <<>>
    ELSE IF Len(ts) = 1 THEN ts[1]
    ELSE ts[1] \o <<",">> \o join(Tail(ts))

\* minified JSON: records as objects with their fields in declaration order,
\* lists and tuples as arrays
RECURSIVE Json(_)
Json(v) ==
    CASE v.k = "str"  -> <<"\"">> \o json_escape(v.s) \o <<"\"">>
      [] v.k = "bool" -> IF v.b THEN <<"t","r","u","e">> ELSE <<"f","a","l","s","e">>
      [] v.k = "num"  -> digits_of(v.n)
      [] v.k = "struct" ->
            <<"{">> \o join([i \in 1..Len(v.fields) |->
                               <<"\"">> \o v.fields[i].n \o <<"\"", ":">>
                                   \o Json(v.fields[i].v)])
                    \o <<"}">>
      [] v.k \in {"list", "tuple"} ->
            <<"[">> \o join([i \in 1..Len(v.es) |-> Json(v.es[i])]) \o <<"]">>

----------------------------------------------------------------------------
(* JSON's grammar (RFC 8259, no whitespace), as a scanner over a text: the    *)
(* mode it is in and the stack of containers still open                       *)

NumDone == {"num_zero", "num_int", "num_frac", "num_exp"}

\* a value is complete: what the next character must be is decided by the
\* innermost open container
JsonAfter(st, c) ==
    IF st = <<>> THEN [m |-> "bad", st |-> st, lit |-> <<>>]
    ELSE LET top == st[Len(st)] IN
         IF c = ","
         THEN [m |-> IF top = "{" THEN "key" ELSE "value", st |-> st, lit |-> <<>>]
         ELSE IF (c = "}" /\ top = "{") \/ (c = "]" /\ top = "[")
         THEN [m |-> "after", st |-> SubSeq(st, 1, Len(st) - 1), lit |-> <<>>]
         ELSE [m |-> "bad", st |-> st, lit |-> <<>>]

\* a value starts with c
JsonValue(st, c) ==
    CASE c = "{"  -> [m |-> "first_key", st |-> Append(st, "{"), lit |-> <<>>]
      [] c = "["  -> [m |-> "first_elem", st |-> Append(st, "["), lit |-> <<>>]
      [] c = "\"" -> [m |-> "in_str", st |-> st, lit |-> <<>>]
      [] c = "t"  -> [m |-> "lit", st |-> st, lit |-> <<"r","u","e">>]
      [] c = "f"  -> [m |-> "lit", st |-> st, lit |-> <<"a","l","s","e">>]
      [] c = "n"  -> [m |-> "lit", st |-> st, lit |-> <<"u","l","l">>]
      [] c = "-"  -> [m |-> "num_minus", st |-> st, lit |-> <<>>]
      [] c = "0"  -> [m |-> "num_zero", st |-> st, lit |-> <<>>]
      [] c \in Digits \ {"0"} -> [m |-> "num_int", st |-> st, lit |-> <<>>]
      [] OTHER    -> [m |-> "bad", st |-> st, lit |-> <<>>]

JsonStep(p, c) ==
    LET to(mode) == [m |-> mode, st |-> p.st, lit |-> <<>>]
        bad == to("bad")
    IN  CASE p.m = "bad" -> bad
          [] p.m = "value" -> JsonValue(p.st, c)
          [] p.m = "first_elem" ->
                IF c = "]" THEN JsonAfter(p.st, c) ELSE JsonValue(p.st, c)
          [] p.m = "first_key" ->
                IF c = "}" THEN JsonAfter(p.st, c)
                ELSE IF c = "\"" THEN to("in_key") ELSE bad
          [] p.m = "key" -> IF c = "\"" THEN to("in_key") ELSE bad
          [] p.m = "in_key" ->
                IF c = "\"" THEN to("colon")
                ELSE IF c = "\\" THEN to("in_key_esc") ELSE to("in_key")
          [] p.m = "in_key_esc" ->
                IF c \in {"\"", "\\", "/", "b", "f", "n", "r", "t", "u"}
                THEN to("in_key") ELSE bad
          [] p.m = "in_str" ->
                IF c = "\"" THEN to("after")
                ELSE IF c = "\\" THEN to("in_str_esc") ELSE to("in_str")
          [] p.m = "in_str_esc" ->
                IF c \in {"\"", "\\", "/", "b", "f", "n", "r", "t", "u"}
                THEN to("in_str") ELSE bad
          [] p.m = "colon" -> IF c = ":" THEN to("value") ELSE bad
          [] p.m = "lit" ->
                IF c = Head(p.lit)
                THEN (IF Len(p.lit) = 1 THEN to("after")
                      ELSE [m |-> "lit", st |-> p.st, lit |-> Tail(p.lit)])
                ELSE bad
          [] p.m = "num_minus" ->
                IF c = "0" THEN to("num_zero")
                ELSE IF c \in Digits THEN to("num_int") ELSE bad
          [] p.m \in {"num_zero", "num_int"} /\ c = "." -> to("num_dot")
          [] p.m \in {"num_zero", "num_int", "num_frac"} /\ c \in {"e", "E"} -> to("num_e")
          [] p.m \in {"num_int", "num_frac", "num_exp"} /\ c \in Digits -> to(p.m)
          [] p.m = "num_dot" -> IF c \in Digits THEN to("num_frac") ELSE bad
          [] p.m = "num_e" ->
                IF c \in {"+", "-"} THEN to("num_esign")
                ELSE IF c \in Digits THEN to("num_exp") ELSE bad
          [] p.m = "num_esign" -> IF c \in Digits THEN to("num_exp") ELSE bad
          [] p.m \in NumDone \cup {"after"} -> JsonAfter(p.st, c)
          [] OTHER -> bad

RECURSIVE JsonScan(_, _, _)
JsonScan(p, s, i) == IF i > Len(s) THEN p ELSE JsonScan(JsonStep(p, s[i]), s, i + 1)

JsonState(s) == JsonScan([m |-> "value", st |-> <<>>, lit |-> <<>>], s, 1)

\* s can be continued to a JSON document (in particular every closer in it
\* matches the opener it closes, and nothing follows the outermost value)
IsJsonPrefix(s) == JsonState(s).m # "bad"

\* s is a JSON document
IsJson(s) == LET p == JsonState(s) IN p.m \in NumDone \cup {"after"} /\ p.st = <<>>

----------------------------------------------------------------------------
(* Claims *)

\* v holds a variant somewhere
RECURSIVE HasVariant(_)
HasVariant(v) ==
    CASE v.k \in {"unit_variant", "tuple_variant"} -> TRUE
      [] v.k = "struct" -> \E i \in 1..Len(v.fields) : HasVariant(v.fields[i].v)
      [] v.k \in {"list", "tuple"} -> \E i \in 1..Len(v.es) : HasVariant(v.es[i])
      [] OTHER -> FALSE

\* the records serialize is specified for: no variant anywhere
Supported(v) == v.k = "struct" /\ ~HasVariant(v)

\* no string of v holds a quote or a backslash
RECURSIVE NeedsNoEscape(_)
NeedsNoEscape(v) ==
    CASE v.k = "str" -> \A i \in 1..Len(v.s) : v.s[i] \notin {"\"", "\\"}
      [] v.k = "struct" -> \A i \in 1..Len(v.fields) : NeedsNoEscape(v.fields[i].v)
      [] v.k \in {"list", "tuple", "tuple_variant"} ->
            \A i \in 1..Len(v.es) : NeedsNoEscape(v.es[i])
      [] OTHER -> TRUE

\* C1: when serialize returns for a record built only from strings, booleans,
\* numbers, nested records, lists and tuples, the buffer is exactly the
\* minified JSON of that record (stated here for strings that need no
\* escaping).
C1_SerializeYieldsJson ==
    Returned /\ Supported(obj) /\ NeedsNoEscape(obj) => current = Json(obj)

\* C2: after every write_str call the buffer is a prefix of a JSON document:
\* closers match the openers before them and nothing follows the outermost
\* object (stated here for the writes serialize makes for a record without
\* variants whose strings need no escaping).
C2_BufferIsJsonPrefix ==
    Supported(obj) /\ NeedsNoEscape(obj) => IsJsonPrefix(current)

\* a record whose fields are booleans and strings
IsBoolStrStruct(v) ==
    v.k = "struct" /\ \A i \in 1..Len(v.fields) : v.fields[i].v.k \in {"bool", "str"}

\* "name":value for field i of a record of booleans and strings
BoolStrField(v, i) ==
    <<"\"">> \o v.fields[i].n \o <<"\"", ":">>
        \o (IF v.fields[i].v.k = "bool"
            THEN (IF v.fields[i].v.b THEN <<"t","r","u","e">> ELSE <<"f","a","l","s","e">>)
            ELSE <<"\"">> \o v.fields[i].v.s \o <<"\"">>)

\* C3: a record of boolean and string fields (strings without quotes,
\* backslashes or surrounding whitespace) serializes to { then the fields in
\* order as "name":value, true/false as literals and strings quoted, one comma
\* between consecutive fields, then }.
C3_BoolsAndStrings ==
    Returned /\ IsBoolStrStruct(obj) /\ obj \in FlatStructs
        => current = <<"{">> \o join([i \in 1..Len(obj.fields) |-> BoolStrField(obj, i)])
                         \o <<"}">>

C3_Witness ==
    /\ Returned
    /\ obj = StructOf(<<Bool(TRUE), Str(<<"h", "i">>), Bool(FALSE)>>)
    /\ current = <<"{", "\"","a","\"",":","t","r","u","e", ",",
                   "\"","b","\"",":","\"","h","i","\"", ",",
                   "\"","c","\"",":","f","a","l","s","e", "}">>

\* C4: a list or tuple of records serializes with each record as its own
\* closed object, one comma between consecutive records and the brackets
\* closed in order, also when the list is the first element of a tuple and
\* strings, records and lists follow it.
C4_ListsOfRecords == Returned /\ obj \in NestStructs => current = Json(obj)

C4_Witness ==
    /\ Returned
    /\ obj = StructOf(<<Tuple(<<List(<<StructOf(<<Bool(TRUE)>>), StructOf(<<Bool(TRUE)>>)>>),
                               Str(<<"h", "i">>), StructOf(<<Str(<<>>)>>),
                               List(<<Str(<<"h", "i">>)>>)>>)>>)
    /\ current = <<"{", "\"","a","\"",":", "[",
                     "[", "{","\"","a","\"",":","t","r","u","e","}", ",",
                          "{","\"","a","\"",":","t","r","u","e","}", "]", ",",
                     "\"","h","i","\"", ",",
                     "{","\"","a","\"",":","\"","\"","}", ",",
                     "[","\"","h","i","\"","]",
                   "]", "}">>

\* a sequence all of whose elements are empty lists, strings or records
EmptySeqCase(v) ==
    /\ v \in SeqStructs
    /\ LET es == v.fields[1].v.es IN
        /\ \A i \in 1..Len(es) : es[i] = List(<<>>) \/ es[i].k \in {"str", "struct"}
        /\ es = <<>> \/ \E i \in 1..Len(es) : es[i] = List(<<>>)

\* C5: an empty list serializes to [], a tuple's ( and ) to [ and ], and an
\* empty list that is an element of a list or tuple is followed by one comma
\* when a string, a record or another empty list follows it, with nothing
\* between its [ and ].
C5_EmptySequences == Returned /\ EmptySeqCase(obj) => current = Json(obj)

C5_Witness ==
    /\ Returned
    /\ obj = StructOf(<<Tuple(<<List(<<>>), Str(<<"h", "i">>)>>)>>)
    /\ current = <<"{", "\"","a","\"",":", "[", "[", "]", ",", "\"","h","i","\"", "]", "}">>

\* what the string arm appends for a fragment
StringContent(f) == IF trim(f) = <<"\\">> THEN <<"\\", "\\">> ELSE trim(f)

\* C6: inside a string a lone backslash is written as two backslashes; the
\* fragment fed right after it is appended as string content and leaves the
\* string open, a lone quote included; so quote, backslash, quote, quote fed
\* where a field's value starts append "\\"" and only the last quote closes
\* the string.
C6_EscapedQuote ==
    /\ flag_has(expecting, STRING_BODY) =>
          LET r == write_str(self, <<"\\">>) IN
              /\ r.current = current \o <<"\\", "\\">>
              /\ r.expecting = STRING_BODY
    /\ expecting = STRING_BODY =>
          \A f \in Fragments :
              LET r == write_str(self, f) IN
                  /\ r.current = current \o StringContent(f)
                  /\ flag_has(r.expecting, STRING_BODY)
                  /\ trim(f) = <<"\"">> => r.expecting = AfterStringBody
    /\ (expecting = AfterColon /\ Len(current) > 0 /\ current[Len(current)] = ":") =>
          LET q  == <<"\"">>
              r1 == write_str(self, q)
              r2 == write_str(r1, <<"\\">>)
              r3 == write_str(r2, q)
              r4 == write_str(r3, q)
          IN  /\ r4.current = current \o <<"\"", "\\", "\\", "\"", "\"">>
              /\ flag_has(r1.expecting, STRING_BODY)
              /\ flag_has(r2.expecting, STRING_BODY)
              /\ flag_has(r3.expecting, STRING_BODY)
              /\ r4.expecting = AfterEndQuote

C6_Witness ==
    /\ expecting = STRING_BODY
    /\ current = <<"{", "\"", "a", "\"", ":", "\"", "\\", "\\">>

\* no write of the rendering of v trims to {
NoBraceIn(v) == \A i \in 1..Len(debug_fmt(v, 0)) : trim(debug_fmt(v, 0)[i]) # <<"{">>

\* C7: while the buffer is empty the expected set is {OpenBrace} and every
\* fragment that does not trim to { is dropped, buffer and expected set
\* unchanged; so a buffer that is not empty starts with {, and a root whose
\* rendering holds no { serializes to the empty string.
C7_FirstAcceptedIsBrace ==
    /\ current = <<>> =>
          /\ expecting = OPEN_BRACE
          /\ \A f \in Fragments :
                trim(f) # <<"{">> =>
                    /\ write_str(self, f).current = <<>>
                    /\ write_str(self, f).expecting = OPEN_BRACE
          /\ \A v \in OtherRoots : NoBraceIn(v) => serialize(v) = <<>>
    /\ current # <<>> => current[1] = "{"

C7_Witness ==
    /\ current = <<>>
    /\ ret = "Ok"
    /\ \E v \in OtherRoots : v.k = "tuple_variant" /\ NoBraceIn(v)

\* a tuple variant written as the array of its payload, a unit variant as its
\* tag: the data of the variants of v, in JSON
RECURSIVE PayloadJson(_)
PayloadJson(v) ==
    CASE v.k = "unit_variant" -> <<"\"">> \o v.tag \o <<"\"">>
      [] v.k \in {"list", "tuple", "tuple_variant"} ->
            <<"[">> \o join([i \in 1..Len(v.es) |-> PayloadJson(v.es[i])]) \o <<"]">>
      [] v.k = "struct" ->
            <<"{">> \o join([i \in 1..Len(v.fields) |->
                               <<"\"">> \o v.fields[i].n \o <<"\"", ":">>
                                   \o PayloadJson(v.fields[i].v)])
                    \o <<"}">>
      [] OTHER -> Json(v)

\* C8: for a record that holds a variant, serialize does not return a JSON
\* document that represents the variant's data.
C8_NoJsonForVariants ==
    Returned /\ obj.k = "struct" /\ HasVariant(obj)
        => ~(IsJson(current) /\ current = PayloadJson(obj))

\* the name with its first character and every character that follows an
\* underscore capitalized, and the underscores dropped
RECURSIVE PascalOf(_, _)
PascalOf(n, i) ==
    IF i > Len(n) THEN <<>>
    ELSE (IF n[i] = "_" THEN <<>>
          ELSE IF i = 1 \/ n[i - 1] = "_" THEN <<to_ascii_uppercase(n[i])>>
          ELSE <<n[i]>>) \o PascalOf(n, i + 1)

\* C9: pascal_case returns the name with its first character capitalized,
\* every other character capitalized exactly when an underscore precedes it,
\* and all underscores dropped.
C9_PascalCase == renamed.done => renamed.s = PascalOf(name, 1)

\* C10: write_str returns Ok for every fragment in every reachable state, and
\* after it some fragment is still accepted.
C10_NeverFails ==
    /\ ret \in {"none", "Ok"}
    /\ \A f \in Fragments : write_str(self, f).ret = "Ok"
    /\ \E f \in Fragments :
          LET r == write_str(self, f) IN
              r.current # current \/ r.expecting # expecting

C10_Witness ==
    /\ ret = "Ok"
    /\ expecting = AfterColon
    /\ write_str(self, <<"T">>).current = current
    /\ write_str(self, <<"T">>).expecting = expecting
    /\ write_str(self, <<"T">>).ret = "Ok"

\* C11: outside a string the buffer never ends with a comma, and every comma
\* written by a fragment that is not string content is immediately followed,
\* within the same write, by a quote, { or [ (so never by } or ]).
C11_NoTrailingComma ==
    /\ ~flag_has(expecting, STRING_BODY) =>
          (current = <<>> \/ current[Len(current)] # ",")
    /\ \A f \in Fragments :
          match_arm(trim(f), expecting) # "string" =>
              LET r == write_str(self, f) IN
                  \A i \in (Len(current) + 1)..Len(r.current) :
                      r.current[i] = "," =>
                          /\ i < Len(r.current)
                          /\ r.current[i + 1] \in {"\"", "{", "["}

C11_Witness ==
    /\ current = <<"{", "\"", "a", "\"", ":", "1", ",", "\"">>
    /\ expecting = AfterStartQuote

\* the string of a field's value has just been opened
ValueStringOpened ==
    /\ expecting = AfterStartQuote
    /\ Len(current) >= 2
    /\ current[Len(current) - 1] = ":"
    /\ current[Len(current)] = "\""

\* C12, as stated: every fragment taken by the string arm, a lone backslash
\* included, leaves END_QUOTE, STRING and ESCAPE_CHAR expected (here for the
\* first fragment of a field's string value).
C12_StringArmKeepsSet ==
    ValueStringOpened =>
        \A f \in Fragments :
            match_arm(trim(f), expecting) = "string" =>
                write_str(self, f).expecting
                    = bit_or({END_QUOTE, STRING_BODY, ESCAPE_CHAR})

\* C12, amended: a fragment taken by the string arm leaves END_QUOTE, STRING
\* and ESCAPE_CHAR expected unless it is a lone backslash, which leaves only
\* STRING expected; either way its content is appended.
C12_StringArmSets ==
    \A f \in Fragments :
        match_arm(trim(f), expecting) = "string" =>
            LET r == write_str(self, f) IN
                /\ r.current = current \o StringContent(f)
                /\ r.expecting = IF trim(f) = <<"\\">>
                                 THEN STRING_BODY
                                 ELSE bit_or({END_QUOTE, STRING_BODY, ESCAPE_CHAR})

C12_Witness ==
    /\ current = <<"{", "\"", "a", "\"", ":", "\"", "a">>
    /\ expecting = bit_or({END_QUOTE, STRING_BODY, ESCAPE_CHAR})

\* the aggregator after the fragments of fs are fed to agg in order
RECURSIVE feed_all(_, _)
feed_all(agg, fs) ==
    IF fs = <<>> THEN agg ELSE feed_all(write_str(agg, Head(fs)), Tail(fs))

\* the writes of one complete list element of each kind: a number, the two
\* booleans, an empty string, an empty list and an empty record
CompleteElements ==
    { << <<"1">> >>, << <<"t","r","u","e">> >>, << <<"f","a","l","s","e">> >>,
      << <<"\"">>, <<"\"">> >>, << <<"[">>, <<"]">> >>, << <<"{">>, <<"}">> >> }

\* the arm a fragment has to take to start an element or to close the sequence
RoleOf(f) ==
    CASE trim(f) = <<"\"">>                  -> "start_quote"
      [] trim(f) = <<"{">>                   -> "open_brace"
      [] trim(f) \in {<<"[">>, <<"(">>}      -> "open_bracket"
      [] trim(f) \in {<<"]">>, <<")">>}      -> "close_bracket"
      [] trim(f) = <<"t","r","u","e">>       -> "true"
      [] trim(f) = <<"f","a","l","s","e">>   -> "false"
      [] trim(f) = <<"1">>                   -> "number"
      [] OTHER                               -> "other"

\* C13: in a list or tuple that has just been opened as a field's value,
\* after one complete element of any kind, a fragment that starts an element
\* of any kind or closes the sequence is taken by the arm of that role.
C13_AnythingFollowsElement ==
    (/\ expecting = AfterOpenBracket
     /\ Len(current) >= 2
     /\ current[Len(current) - 1] = ":") =>
        \A e \in CompleteElements :
            LET r == feed_all(self, e) IN
                \A f \in Fragments :
                    RoleOf(f) # "other" =>
                        match_arm(trim(f), r.expecting) = RoleOf(f)

\* the arms that write a field name or start a value
SiblingArms ==
    {"field_name", "start_quote", "open_brace", "open_bracket", "number",
     "true", "false"}

\* C14: in a list or tuple that has just been opened as a field's value,
\* after one complete element of any kind, every fragment that is accepted
\* and writes a field name or starts a value writes exactly one comma first.
C14_CommaBetweenSiblings ==
    (/\ expecting = AfterOpenBracket
     /\ Len(current) >= 2
     /\ current[Len(current) - 1] = ":") =>
        \A e \in CompleteElements :
            LET r == feed_all(self, e) IN
                \A f \in Fragments :
                    LET n == Len(r.current)
                        w == write_str(r, f)
                    IN  (/\ match_arm(trim(f), r.expecting) \in SiblingArms
                         /\ w.current # r.current) =>
                            /\ Len(w.current) >= n + 2
                            /\ SubSeq(w.current, 1, n) = r.current
                            /\ w.current[n + 1] = ","
                            /\ w.current[n + 2] # ","

\* the fragment is none of true, false, a text that parses as a number, or a
\* structural token that is accepted when x is expected
NotANumberOrToken(f, x) ==
    /\ trim(f) \notin {<<"t","r","u","e">>, <<"f","a","l","s","e">>}
    /\ ~parses_as_f64(trim(f))
    /\ match_arm(trim(f), x) \notin
           {"open_brace", "close_brace", "open_bracket", "close_bracket",
            "start_quote", "end_quote"}

\* C15, as stated: while NUMBER is expected, a fragment that is not true or
\* false, does not parse as a number and is not an accepted structural token
\* is dropped: buffer and expected set stay as they are.
C15_NonNumberDropped ==
    flag_has(expecting, NUMBER) =>
        \A f \in Fragments :
            NotANumberOrToken(f, expecting) =>
                /\ write_str(self, f).current = current
                /\ write_str(self, f).expecting = expecting

\* C15, amended: such a fragment is dropped when FIELD_NAME is not expected
\* too, or when it trims to nothing, is a bare comma or starts with an
\* upper-case letter; otherwise (after a number or boolean) it is written as
\* a field name and COLON becomes the expected set.
C15_NonNumberDroppedOrFieldName ==
    flag_has(expecting, NUMBER) =>
        \A f \in Fragments :
            NotANumberOrToken(f, expecting) =>
                LET s == trim(f)
                    r == write_str(self, f)
                IN  IF \/ ~flag_has(expecting, FIELD_NAME)
                       \/ s \in {<<>>, <<",">>}
                       \/ is_ascii_uppercase(s[1])
                    THEN r.current = current /\ r.expecting = expecting
                    ELSE /\ r.expecting = COLON
                         /\ \E sep \in {<<>>, <<",">>} :
                               r.current = current \o sep \o <<"\"">> \o s
                                               \o <<"\"", ":">>

C15_Witness ==
    /\ current = <<"{", "\"", "a", "\"", ":", "1">>
    /\ expecting = AfterScalar
    /\ write_str(self, <<"T">>).current = current
    /\ write_str(self, <<"a">>).current = current \o <<",", "\"", "a", "\"", ":">>

\* fragments of whitespace only, and the bare comma alone or before a newline
SeparatorArtifacts ==
    { <<>>, <<" ">>, <<"\n">>, <<" ", " ", " ", " ">>, <<",">>, <<",", "\n">> }

\* C16: while STRING is not expected, a fragment of whitespace only or a bare
\* comma leaves the buffer and the expected set as they are.
C16_SeparatorsInert ==
    ~flag_has(expecting, STRING_BODY) =>
        \A f \in SeparatorArtifacts :
            /\ write_str(self, f).current = current
            /\ write_str(self, f).expecting = expecting

C16_Witness ==
    /\ current = <<"{", "\"", "a", "\"", ":", "\"", "\"">>
    /\ expecting = AfterEndQuote
    /\ write_str(self, <<",", "\n">>).current = current
    /\ write_str(self, <<" ", " ", " ", " ">>).expecting = expecting

\* the eleven token kinds
Flags ==
    {OPEN_BRACE, CLOSE_BRACE, OPEN_BRACKET, CLOSE_BRACKET, COLON, START_QUOTE,
     END_QUOTE, STRING_BODY, ESCAPE_CHAR, FIELD_NAME, NUMBER}

\* C17: the expected set is never empty: in every reachable state it holds at
\* least one of the token kinds, and some fragment is taken by an arm other
\* than the catch-all.
C17_ExpectedNonEmpty ==
    /\ expecting # 0
    /\ \E flag \in Flags : flag_has(expecting, flag)
    /\ \E f \in Fragments : match_arm(trim(f), expecting) # "no_match"

C17_Witness ==
    /\ current = <<"{", "\"", "a", "\"", ":">>
    /\ expecting = COLON
    /\ match_arm(<<":">>, expecting) = "colon"

\* C18: the buffer only grows at its end: for every fragment the buffer
\* before write_str is a prefix of the buffer after it, and the colon arm,
\* the catch-all arm and the early returns of the field-name arm leave the
\* buffer as it is.
C18_AppendOnly ==
    \A f \in Fragments \cup SeparatorArtifacts :
        LET r   == write_str(self, f)
            arm == match_arm(trim(f), expecting)
        IN  /\ Len(r.current) >= Len(current)
            /\ SubSeq(r.current, 1, Len(current)) = current
            /\ arm \in {"colon", "no_match"} => r.current = current
            /\ (arm = "field_name" /\ trim(f) \in {<<>>, <<",">>}) =>
                  r.current = current

C18_Witness ==
    /\ current = <<"{", "\"", "a", "\"", ":", "[", "]">>
    /\ expecting = AfterCloseBracket
    /\ write_str(self, <<"{">>).current = current \o <<",", "{">>
    /\ write_str(self, <<"T">>).current = current

\* the arms of write_str that call add_comma
CommaArms == {"open_brace", "open_bracket", "start_quote", "field_name"}

\* the expected sets left by the arms that complete a value
AfterValue ==
    {AfterEndQuote, AfterCloseBrace, AfterCloseBracket, AfterScalar}

\* C19: whenever a fragment is taken by an arm that calls add_comma, STRING
\* is not expected and the buffer is empty, or ends with the { or [ just
\* opened or with the : of a field name, or ends a completed value; and a
\* comma is written only in the last case.
C19_CommaOnlyAfterValue ==
    \A f \in Fragments :
        match_arm(trim(f), expecting) \in CommaArms =>
            LET n == Len(current)
                r == write_str(self, f)
            IN  /\ ~flag_has(expecting, STRING_BODY)
                /\ \/ n = 0 /\ expecting = OPEN_BRACE
                   \/ n > 0 /\ current[n] = "{" /\ expecting = AfterOpenBrace
                   \/ n > 0 /\ current[n] = "[" /\ expecting = AfterOpenBracket
                   \/ n > 0 /\ current[n] = ":" /\ expecting = AfterColon
                   \/ n > 0 /\ expecting \in AfterValue
                /\ (Len(r.current) > n /\ r.current[n + 1] = ",") =>
                      expecting \in AfterValue

C19_Witness ==
    /\ current = <<"{", "\"", "a", "\"", ":", "\"", "1">>
    /\ expecting = AfterStringBody
    /\ \A f \in Fragments : match_arm(trim(f), expecting) \notin CommaArms
    /\ write_str(self, <<"{">>).current = current \o <<"{">>

\* the token kinds other than those of an open string
OutsideStringFlags ==
    {FIELD_NAME, NUMBER, START_QUOTE, OPEN_BRACE, CLOSE_BRACE, OPEN_BRACKET,
     CLOSE_BRACKET, COLON}

\* C20: the expected set never holds START_QUOTE together with END_QUOTE,
\* and never STRING together with a kind that belongs outside a string; so
\* while STRING is expected every fragment other than a lone quote is taken
\* by the string arm, and a lone quote by exactly one of the quote arms or,
\* after a backslash, by the string arm.
C20_NoStringAmbiguity ==
    /\ ~(flag_has(expecting, START_QUOTE) /\ flag_has(expecting, END_QUOTE))
    /\ flag_has(expecting, STRING_BODY) =>
          /\ \A flag \in OutsideStringFlags : ~flag_has(expecting, flag)
          /\ \A f \in Fragments :
                LET arm == match_arm(trim(f), expecting) IN
                    IF trim(f) = <<"\"">>
                    THEN arm = (IF flag_has(expecting, END_QUOTE)
                                THEN "end_quote" ELSE "string")
                    ELSE arm = "string"

C20_Witness ==
    /\ current = <<"{", "\"", "a", "\"", ":", "\"", "T">>
    /\ expecting = AfterStringBody
    /\ match_arm(<<"\"">>, expecting) = "end_quote"
    /\ match_arm(<<"1">>, expecting) = "string"

====
